---- MODULE Spec2Model ----
(***************************************************************************)
(* Model of the MPV playback controller (src/mpv_controller.py) and of the *)
(* player process it supervises.                                           *)
(*                                                                         *)
(* The controller's fields are the variables state .. is_paused; the       *)
(* variables alive, sock, mpvPaused, mpvPos, mpvDur are the operating      *)
(* system and the player: which launched processes run, which process      *)
(* owns the IPC socket file, and what the player would report.             *)
(* lastOp, pre, ret and cmds are history: the operation that produced the  *)
(* state, the session state it started from, its return value and the IPC  *)
(* requests it issued.                                                     *)
(*                                                                         *)
(* Every method of the controller is an operator from a session record to  *)
(* a session record (DoStop, DoPlay, ...), so that a method that calls     *)
(* another (play -> stop, set_hdmi_output -> play, seek, pause) is the     *)
(* composition the code performs.                                          *)
(***************************************************************************)
EXTENDS Integers, Sequences, FiniteSets, TLC

VARIABLES
    state,          \* self.state: "stopped" | "playing" | "paused"
    current_file,   \* self.current_file, NoFile for None
    process,        \* self.process: the Popen handle, NoProc for None
    position,       \* self.position
    duration,       \* self.duration
    volume,         \* self.volume
    hdmi_output,    \* self.hdmi_output
    is_paused,      \* self.is_paused
    loop,           \* config['loop']
    alive,          \* the launched player processes that are running
    sock,           \* the process bound to /tmp/mpvsocket, NoSock: no file
    mpvPaused,      \* the player's pause property
    mpvPos,         \* the player's time-pos property
    mpvDur,         \* the player's duration property
    pc,             \* per caller thread: where it is inside play()
    loc,            \* per caller thread: the locals of its call
    lastOp,         \* history: the operation that completed last
    pre,            \* history: self.state when that operation started
    lastArg,        \* history: its argument (file, seconds, level, output)
    ret,            \* history: its return value
    cmds,           \* history: the IPC requests it issued, in order
    launched,       \* history: it started a player process (Popen returned)
    argv,           \* history: the volume and output preference it started it with
    stopper,        \* a stop() followed statement by statement
    monitor_running,\* self.monitor_running
    wire,           \* one IPC exchange: what the socket and the peer do
    reply,          \* one IPC exchange: what the call returned
    mon,            \* the monitor thread inside one pass of its loop
    probe,          \* display detection: what tvservice and /sys/class/drm show
    hdmi_info       \* display detection: the profile _detect_hdmi returned

vars == <<state, current_file, process, position, duration, volume,
          hdmi_output, is_paused, loop, alive, sock, mpvPaused, mpvPos,
          mpvDur, pc, loc, lastOp, pre, lastArg, ret,
          cmds, launched, argv, stopper, monitor_running, wire, reply, mon,
          probe, hdmi_info>>

\* The variables of the models of single functions, which the operations
\* of the controller leave alone.
aux == <<wire, reply, mon, probe, hdmi_info>>

(***************************************************************************)
(* Bounds of the model.                                                    *)
(***************************************************************************)
\* The longest media file, in seconds; positions range over 0..MaxPos.
MaxPos == 2
\* The number of process ids the operating system hands out.
MaxProcs == 2
\* The largest |delta| of a skip request.
MaxSkip == 1

(***************************************************************************)
(* Values.                                                                 *)
(***************************************************************************)
NoProc == 0
NoSock == 0
NoFile == "none"
Pids == 1..MaxProcs
\* Media files that exist on disk, and one path that does not.
Files == {"a.mp4", "b.mp4"}
MissingFile == "missing.mp4"
\* What the player reports as the duration of a file once it is loaded.
FileDur(f) == IF f = "a.mp4" THEN MaxPos ELSE MaxPos - 1
Outputs == {"auto", "HDMI-A-2"}
Levels == {-5, 50, 150}
Threads == {1, 2}
NoLocals == [file |-> NoFile, hdmi |-> FALSE, cur_pos |-> 0,
             was_paused |-> FALSE]

NoArg == "none"
RetTrue == "True"
RetFalse == "False"
RetNone == "None"

\* No player was started: no '--volume=' and no output preference.
NoArgv == [volume |-> 0, pref |-> "none"]

Clamp(x, lo, hi) == IF x < lo THEN lo ELSE IF x > hi THEN hi ELSE x

(***************************************************************************)
(* The session as a record, and back.                                      *)
(***************************************************************************)
Cur ==
    [state |-> state, current_file |-> current_file, process |-> process,
     position |-> position, duration |-> duration, volume |-> volume,
     hdmi_output |-> hdmi_output, is_paused |-> is_paused, loop |-> loop,
     alive |-> alive, sock |-> sock, mpvPaused |-> mpvPaused,
     mpvPos |-> mpvPos, mpvDur |-> mpvDur, cmds |-> <<>>, res |-> RetNone,
     launched |-> FALSE, argv |-> NoArgv]

Set(s) ==
    /\ state' = s.state
    /\ current_file' = s.current_file
    /\ process' = s.process
    /\ position' = s.position
    /\ duration' = s.duration
    /\ volume' = s.volume
    /\ hdmi_output' = s.hdmi_output
    /\ is_paused' = s.is_paused
    /\ loop' = s.loop
    /\ alive' = s.alive
    /\ sock' = s.sock
    /\ mpvPaused' = s.mpvPaused
    /\ mpvPos' = s.mpvPos
    /\ mpvDur' = s.mpvDur
    /\ cmds' = s.cmds
    /\ ret' = s.res
    /\ launched' = s.launched
    /\ argv' = s.argv

\* The operation named op completes, leaving the session s.
Done(op, a, s) ==
    /\ Set(s)
    /\ lastOp' = op
    /\ lastArg' = a
    /\ pre' = state

\* The same, for every operation but cleanup() and the stop() that is
\* followed statement by statement.
Finish(op, a, s) ==
    /\ Done(op, a, s)
    /\ UNCHANGED aux
    /\ UNCHANGED <<stopper, monitor_running>>

Returning(s, r) == [s EXCEPT !.res = r]

(***************************************************************************)
(* The player process and the IPC socket.                                  *)
(***************************************************************************)
\* An IPC request; ok is filled in when it is issued: whether it succeeded.
Cmd(name, mode, a) ==
    [name |-> name, mode |-> mode, arg |-> a, ok |-> FALSE]
QuitCmd == Cmd("quit", "", 0)
SetPauseCmd(b) == Cmd("set_property", "pause", IF b THEN 1 ELSE 0)
SetVolumeCmd(v) == Cmd("set_property", "volume", v)
SeekCmd(x, mode) == Cmd("seek", mode, x)
CycleAudioCmd == Cmd("cycle", "audio", 0)
GetCmd(prop) == Cmd("get_property", prop, 0)

\* os.path.exists(self.mpv_socket)
SockExists(s) == s.sock # NoSock
\* A player is listening on the socket file.
Live(s) == s.sock # NoSock /\ s.sock \in s.alive

\* Process p exits; the player's answers go with the socket's owner.
Exited(s, p) ==
    IF s.sock = p
    THEN [s EXCEPT !.alive = @ \ {p}, !.mpvPaused = FALSE, !.mpvPos = 0,
                   !.mpvDur = 0]
    ELSE [s EXCEPT !.alive = @ \ {p}]

\* What the player does with a request it answers with "success".
MpvApply(s, c) ==
    CASE c.name = "quit" -> Exited(s, s.sock)
      [] c.name = "set_property" /\ c.mode = "pause" ->
            [s EXCEPT !.mpvPaused = (c.arg = 1)]
      [] c.name = "seek" /\ c.mode = "absolute" ->
            [s EXCEPT !.mpvPos = Clamp(c.arg, 0, s.mpvDur)]
      [] c.name = "seek" /\ c.mode = "relative" ->
            [s EXCEPT !.mpvPos = Clamp(s.mpvPos + c.arg, 0, s.mpvDur)]
      [] OTHER -> s

\* The result of _send_command and of _get_property: the socket file
\* exists, a player answers in time (ok) and its answer is "success".
SendOk(s, ok) == Live(s) /\ ok

\* The outcomes of one IPC call an operation has to consider: with no
\* player listening the call fails, whatever else happens.
Oks(s) == IF Live(s) THEN BOOLEAN ELSE {FALSE}
\* The outcomes of a call made only when cond holds.
OksIf(s, cond) == IF cond THEN Oks(s) ELSE {FALSE}

\* The outcomes of stop()'s quit request to consider: when the player that
\* would answer is the process stop() terminates next, both end alike.
QuitOks(s) == IF Live(s) /\ s.sock # s.process THEN BOOLEAN ELSE {TRUE}

\* The request c is issued and succeeds or not.
Logged(s, c, ok) == [s EXCEPT !.cmds = Append(@, [c EXCEPT !.ok = ok])]

\* The session after _send_command(c).
Sent(s, c, ok) ==
    IF SendOk(s, ok)
    THEN MpvApply(Logged(s, c, TRUE), c)
    ELSE Logged(s, c, FALSE)

\* The session after _get_property(prop).
Asked(s, prop, ok) == Logged(s, GetCmd(prop), SendOk(s, ok))

(***************************************************************************)
(* stop()                                                                  *)
(***************************************************************************)
\* if os.path.exists(self.mpv_socket): self._send_command(['quit'])
QuitSent(s, qok) == IF SockExists(s) THEN Sent(s, QuitCmd, qok) ELSE s

\* terminate(), wait(timeout=2), kill(), wait(); then self.process = None.
Terminated(s) ==
    IF s.process # NoProc
    THEN [Exited(s, s.process) EXCEPT !.process = NoProc]
    ELSE s

\* os.remove(self.mpv_socket) when the file exists.
SocketRemoved(s) == [s EXCEPT !.sock = NoSock]

\* Mutant: stop() leaves position and duration as they are.
StopResetKeepsPosition(s) ==
    [s EXCEPT !.state = "stopped", !.is_paused = FALSE,
              !.current_file = NoFile]

\* The fields stop() resets once the process and the socket are gone.
StopReset(s) ==
    [s EXCEPT !.state = "stopped", !.is_paused = FALSE,
              !.current_file = NoFile, !.position = 0, !.duration = 0]

DoStop(s, qok) ==
    Returning(StopReset(SocketRemoved(Terminated(QuitSent(s, qok)))), RetTrue)

Stop ==
    \E qok \in QuitOks(Cur) :
        /\ Finish("stop", NoArg, DoStop(Cur, qok))
        /\ UNCHANGED <<pc, loc>>

\* terminate(), kill() or wait() raised; died: the process is gone all the
\* same (the signal was delivered before the error).
TerminateRaised(s, died) == IF died THEN Exited(s, s.process) ELSE s

\* stop() through its except branch: the error is logged, False returned,
\* and the statements after the terminate step are not run.
DoStopRaising(s, qok, died) ==
    Returning(TerminateRaised(QuitSent(s, qok), died), RetFalse)

\* stop() on a process that is still running after the quit request, with
\* the terminate step raising.
StopRaising ==
    \E qok \in BOOLEAN, died \in BOOLEAN :
        /\ process # NoProc
        /\ process \in QuitSent(Cur, qok).alive
        /\ Finish("stop", NoArg, DoStopRaising(Cur, qok, died))
        /\ UNCHANGED <<pc, loc>>

(***************************************************************************)
(* stop() statement by statement: the quit request, terminate(), the wait  *)
(* of two seconds, kill() and the wait that follows, self.process = None,  *)
(* the socket removal and the reset.  stopper.log is what it has done.     *)
(***************************************************************************)
NoStopper == [pc |-> "idle", log |-> <<>>]

\* stop() takes one step: the session becomes s, it moves on to st.
StopStep(s, st) ==
    /\ Set([s EXCEPT !.cmds = cmds, !.res = ret, !.launched = launched,
                     !.argv = argv])
    /\ stopper' = st
    /\ UNCHANGED <<pc, loc, lastOp, pre, lastArg, monitor_running>>
    /\ UNCHANGED aux

\* stop() does event e and moves on to statement to.
Stepped(to, e) == [pc |-> to, log |-> Append(stopper.log, e)]

\* Mutant: the wait always runs into its timeout.
GraceWaitNever(s, exits) == "timeout"

\* self.process.wait(timeout=2): it returns when the process has exited by
\* itself, after the quit or within the two seconds after terminate()
\* (exits); else it raises TimeoutExpired.
GraceWait(s, exits) ==
    IF s.process \notin s.alive \/ exits THEN "exited" ELSE "timeout"

\* if os.path.exists(self.mpv_socket): self._send_command(['quit'])
StopBegin ==
    /\ stopper.pc = "idle"
    /\ \E qok \in Oks(Cur) :
        StopStep(QuitSent(Cur, qok),
                 [pc |-> IF process # NoProc THEN "terminate" ELSE "remove",
                  log |-> IF SockExists(Cur) THEN <<"quit">> ELSE <<>>])

\* self.process.terminate()
StopTerminate ==
    /\ stopper.pc = "terminate"
    /\ StopStep(Cur, Stepped("wait", "terminate"))

\* self.process.wait(timeout=2)
StopWait ==
    /\ stopper.pc = "wait"
    /\ \E exits \in IF process \in alive THEN BOOLEAN ELSE {TRUE} :
        IF GraceWait(Cur, exits) = "exited"
        THEN StopStep(Exited(Cur, process), Stepped("release", "wait:exited"))
        ELSE StopStep(Cur, Stepped("kill", "wait:timeout"))

\* except subprocess.TimeoutExpired: self.process.kill()
StopKill ==
    /\ stopper.pc = "kill"
    /\ StopStep(Exited(Cur, process), Stepped("reap", "kill"))

\* self.process.wait()
StopReap ==
    /\ stopper.pc = "reap"
    /\ process \notin alive
    /\ StopStep(Cur, Stepped("release", "wait:exited"))

\* self.process = None
StopRelease ==
    /\ stopper.pc = "release"
    /\ StopStep([Cur EXCEPT !.process = NoProc],
                [stopper EXCEPT !.pc = "remove"])

\* The socket removal, the reset of the fields, return True.
StopReturn ==
    /\ stopper.pc = "remove"
    /\ Done("stop", NoArg, Returning(StopReset(SocketRemoved(Cur)), RetTrue))
    /\ stopper' = [stopper EXCEPT !.pc = "idle"]
    /\ UNCHANGED <<pc, loc, monitor_running>>
    /\ UNCHANGED aux

(***************************************************************************)
(* play(filepath)                                                          *)
(***************************************************************************)
\* The process ids Popen can return: those no live process, handle or
\* socket still refers to.
FreePids(s) == Pids \ (s.alive \cup {s.process, s.sock})
NewPid(s) == CHOOSE p \in FreePids(s) : \A q \in FreePids(s) : p <= q

\* subprocess.Popen(cmd) returned p: the player runs, binds the socket and
\* loads the file unpaused ('--pause=no'); then state and is_paused are set.
\* Mutant: the player is started with the configured default volume.
LaunchedAsDefault(s, f, p) ==
    [s EXCEPT !.process = p, !.alive = @ \cup {p}, !.sock = p,
              !.mpvPaused = FALSE, !.mpvPos = 0, !.mpvDur = FileDur(f),
              !.state = "playing", !.is_paused = FALSE, !.launched = TRUE,
              !.argv = [volume |-> 100, pref |-> s.hdmi_output]]

\* The command line carries f'--volume={self.volume}', and _detect_hdmi()
\* has read self.hdmi_output.
LaunchedAs(s, f, p) ==
    [s EXCEPT !.process = p, !.alive = @ \cup {p}, !.sock = p,
              !.mpvPaused = FALSE, !.mpvPos = 0, !.mpvDur = FileDur(f),
              !.state = "playing", !.is_paused = FALSE, !.launched = TRUE,
              !.argv = [volume |-> s.volume, pref |-> s.hdmi_output]]

Launched(s, f) == LaunchedAs(s, f, NewPid(s))

\* if not os.path.exists(filepath): return False; self.current_file = ...
FileChecked(s, f) ==
    IF f \notin Files
    THEN Returning(s, RetFalse)
    ELSE [s EXCEPT !.current_file = f]

\* Mutant: the file is checked before the running playback is stopped.
PlayPreparedCheckFirst(s, f, qok) ==
    IF f \notin Files
    THEN Returning(s, RetFalse)
    ELSE FileChecked(DoStop(s, qok), f)

\* play() up to the launch: stop(), the file check, self.current_file.
PlayPrepared(s, f, qok) == FileChecked(DoStop(s, qok), f)

\* play() from the launch on; spawned is FALSE when Popen raises.
PlayLaunched(s, f, spawned) ==
    IF spawned
    THEN Returning(Launched(s, f), RetTrue)
    ELSE Returning(s, RetFalse)

DoPlay(s, f, qok, spawned) ==
    IF f \notin Files
    THEN PlayPrepared(s, f, qok)
    ELSE PlayLaunched(PlayPrepared(s, f, qok), f, spawned)

Play ==
    \E f \in Files \cup {MissingFile}, qok \in QuitOks(Cur), spawned \in BOOLEAN :
        /\ FreePids(DoStop(Cur, qok)) # {}
        /\ Finish("play", f, DoPlay(Cur, f, qok, spawned))
        /\ UNCHANGED <<pc, loc>>

(***************************************************************************)
(* pause(), resume(), seek(position), skip(seconds), set_volume(level)     *)
(***************************************************************************)
\* self.state = 'playing'; self.is_paused = False
Resumed(s) == [s EXCEPT !.state = "playing", !.is_paused = FALSE]

\* if self.position > 0: self._send_command(['seek', '0', 'relative'])
Resynced(s) ==
    IF s.position > 0 THEN Sent(s, SeekCmd(0, "relative"), TRUE) ELSE s

DoResume(s, ok) ==
    IF SendOk(s, ok)
    THEN Returning(Resynced(Resumed(Sent(s, SetPauseCmd(FALSE), ok))), RetTrue)
    ELSE Returning(Sent(s, SetPauseCmd(FALSE), ok), RetFalse)

\* self.state = 'paused'; self.is_paused = True
Paused(s) == [s EXCEPT !.state = "paused", !.is_paused = TRUE]

\* Mutant: pause() only ever pauses.
DoPauseOneWay(s, ok) ==
    IF s.state = "stopped"
    THEN Returning(s, RetFalse)
    ELSE IF SendOk(s, ok)
         THEN Returning(Paused(Sent(s, SetPauseCmd(TRUE), ok)), RetTrue)
         ELSE Returning(Sent(s, SetPauseCmd(TRUE), ok), RetFalse)

DoPause(s, ok) ==
    IF s.state = "stopped"
    THEN Returning(s, RetFalse)
    ELSE IF s.is_paused
         THEN DoResume(s, ok)
         ELSE IF SendOk(s, ok)
              THEN Returning(Paused(Sent(s, SetPauseCmd(TRUE), ok)), RetTrue)
              ELSE Returning(Sent(s, SetPauseCmd(TRUE), ok), RetFalse)

\* The two ['cycle', 'audio'] requests; their results are not looked at.
AudioCycled(s) == Sent(Sent(s, CycleAudioCmd, TRUE), CycleAudioCmd, TRUE)

\* self.position = position
Positioned(s, x) == [s EXCEPT !.position = x]

DoSeek(s, x, ok) ==
    IF SendOk(s, ok)
    THEN Returning(AudioCycled(Positioned(Sent(s, SeekCmd(x, "absolute"), ok),
                                          x)), RetTrue)
    ELSE Returning(Sent(s, SeekCmd(x, "absolute"), ok), RetFalse)

\* pos = self._get_property('time-pos'); if pos is not None: ...
PositionRead(s, gok) ==
    IF SendOk(s, gok) THEN [s EXCEPT !.position = s.mpvPos] ELSE s

\* gok: the player answers the get_property("time-pos") that follows.
DoSkip(s, d, ok, gok) ==
    IF SendOk(s, ok)
    THEN Returning(AudioCycled(PositionRead(
             Asked(Sent(s, SeekCmd(d, "relative"), ok), "time-pos", gok), gok)),
             RetTrue)
    ELSE Returning(Sent(s, SeekCmd(d, "relative"), ok), RetFalse)

\* Mutant: the level is stored as given.
VolumeStoredRaw(s, level) == [s EXCEPT !.volume = level]

\* self.volume = max(0, min(100, level))
VolumeStored(s, level) == [s EXCEPT !.volume = Clamp(level, 0, 100)]

VolumeSent(s, ok) ==
    Returning(Sent(s, SetVolumeCmd(s.volume), ok),
              IF SendOk(s, ok) THEN RetTrue ELSE RetFalse)

DoSetVolume(s, level, ok) == VolumeSent(VolumeStored(s, level), ok)

Pause ==
    \E ok \in Oks(Cur) :
        /\ Finish("pause", NoArg, DoPause(Cur, ok))
        /\ UNCHANGED <<pc, loc>>

Resume ==
    \E ok \in Oks(Cur) :
        /\ Finish("resume", NoArg, DoResume(Cur, ok))
        /\ UNCHANGED <<pc, loc>>

Seek ==
    \E x \in 0..MaxPos, ok \in Oks(Cur) :
        /\ Finish("seek", x, DoSeek(Cur, x, ok))
        /\ UNCHANGED <<pc, loc>>

Skip ==
    \E d \in (-MaxSkip..MaxSkip) \ {0}, ok \in Oks(Cur) :
      \E gok \in OksIf(Cur, ok) :
        /\ Finish("skip", d, DoSkip(Cur, d, ok, gok))
        /\ UNCHANGED <<pc, loc>>

SetVolume ==
    \E level \in Levels, ok \in Oks(Cur) :
        /\ Finish("set_volume", level, DoSetVolume(Cur, level, ok))
        /\ UNCHANGED <<pc, loc>>

(***************************************************************************)
(* get_state()                                                             *)
(***************************************************************************)
\* self.process and self.process.poll() is not None
ProcessExited(s) == s.process # NoProc /\ s.process \notin s.alive

\* Mutant: the query never looks at the process.
ReconciledNever(s) == s

Reconciled(s) ==
    IF ProcessExited(s)
    THEN [s EXCEPT !.state = "stopped", !.is_paused = FALSE,
                   !.current_file = NoFile]
    ELSE s

\* return self.state
ReturningState(s) == Returning(s, s.state)

DoGetState(s) == ReturningState(Reconciled(s))

GetState ==
    /\ Finish("get_state", NoArg, DoGetState(Cur))
    /\ UNCHANGED <<pc, loc>>

(***************************************************************************)
(* set_hdmi_output(output)                                                 *)
(***************************************************************************)
\* self.hdmi_output = output
OutputStored(s, o) == [s EXCEPT !.hdmi_output = o]

\* if self.state in ['playing', 'paused'] and self.current_file
Restarts(s) == s.state \in {"playing", "paused"} /\ s.current_file # NoFile

\* if current_pos > 0: self.seek(current_pos)
SeekedBack(s, cur_pos, skok) ==
    IF cur_pos > 0 THEN DoSeek(s, cur_pos, skok) ELSE s

\* Mutant: the restarted playback is never paused again.
PausedAgainNever(s, was_paused, pok) == s

\* if was_paused: self.pause()
PausedAgain(s, was_paused, pok) ==
    IF was_paused THEN DoPause(s, pok) ELSE s

\* After the inner play(): seek back, pause again, return True.
HdmiRestored(s, cur_pos, was_paused, skok, pok) ==
    Returning(PausedAgain(SeekedBack(s, cur_pos, skok), was_paused, pok),
              RetTrue)

Restarted(s, qok, spawned, skok, pok) ==
    HdmiRestored(DoPlay(s, s.current_file, qok, spawned),
                 s.position, s.is_paused, skok, pok)

DoSetHdmiOutput(s, o, qok, spawned, skok, pok) ==
    IF Restarts(s)
    THEN Restarted(OutputStored(s, o), qok, spawned, skok, pok)
    ELSE Returning(OutputStored(s, o), RetTrue)

SetHdmiOutput ==
    \E o \in Outputs, qok \in QuitOks(Cur),
       spawned \in IF Restarts(Cur) THEN BOOLEAN ELSE {FALSE} :
      \E skok \in IF Restarts(Cur) /\ spawned /\ position > 0
                   THEN BOOLEAN ELSE {FALSE},
         pok \in IF Restarts(Cur) /\ spawned /\ is_paused
                  THEN BOOLEAN ELSE {FALSE} :
        /\ FreePids(DoStop(Cur, qok)) # {}
        /\ Finish("set_hdmi_output", o,
                  DoSetHdmiOutput(Cur, o, qok, spawned, skok, pok))
        /\ UNCHANGED <<pc, loc>>

(***************************************************************************)
(* _monitor_position(): one pass of the loop body                          *)
(***************************************************************************)
\* pos = self._get_property('time-pos'), applied when it is answered.
TickPos(s, r) ==
    IF SendOk(s, r) THEN [s EXCEPT !.position = s.mpvPos] ELSE s

\* Mutant: a duration read that fails resets the duration.
TickDurOrReset(s, r) ==
    IF SendOk(s, r) THEN [s EXCEPT !.duration = s.mpvDur]
    ELSE [s EXCEPT !.duration = 0]

\* dur = self._get_property('duration')
TickDur(s, r) ==
    IF SendOk(s, r) THEN [s EXCEPT !.duration = s.mpvDur] ELSE s

\* paused = self._get_property('pause')
TickPause(s, r) ==
    IF SendOk(s, r)
    THEN [s EXCEPT !.is_paused = s.mpvPaused,
                   !.state = IF s.mpvPaused THEN "paused" ELSE "playing"]
    ELSE s

\* The three reads, in the order of the code.
TickRead(s, r1, r2, r3) ==
    TickPause(Asked(TickDur(Asked(TickPos(Asked(s, "time-pos", r1), r1),
                                  "duration", r2), r2), "pause", r3), r3)

\* if self.duration > 0 and self.position >= self.duration - 1
PlaybackEnded(s) == s.duration > 0 /\ s.position >= s.duration - 1

\* Mutant: the end of playback stops the session, looping or not.
TickEndedStops(s, skok) ==
    [s EXCEPT !.state = "stopped", !.is_paused = FALSE]

\* The end-of-playback branch: loop back, or mark the session stopped.
TickEnded(s, skok) ==
    IF s.loop
    THEN DoSeek(s, 0, skok)
    ELSE [s EXCEPT !.state = "stopped", !.is_paused = FALSE]

TickChecked(s, skok) ==
    Returning(IF PlaybackEnded(s) THEN TickEnded(s, skok) ELSE s, RetNone)

\* Mutant: the pass runs its reads whatever the state.
DoTickAlways(s, r1, r2, r3, skok) ==
    TickChecked(TickRead(s, r1, r2, r3), skok)

DoTick(s, r1, r2, r3, skok) ==
    IF s.state = "playing"
    THEN TickChecked(TickRead(s, r1, r2, r3), skok)
    ELSE s

Tick ==
    \E r1 \in OksIf(Cur, state = "playing"),
       r2 \in OksIf(Cur, state = "playing"),
       r3 \in OksIf(Cur, state = "playing") :
      \E skok \in OksIf(Cur, loop /\ PlaybackEnded(TickRead(Cur, r1, r2, r3))) :
        /\ Finish("tick", NoArg, DoTick(Cur, r1, r2, r3, skok))
        /\ UNCHANGED <<pc, loc>>

(***************************************************************************)
(* _monitor_position() on its own thread: one pass of the loop body, one   *)
(* step per IPC read and per write to the controller's fields, with the    *)
(* request handlers free to run in between.  No lock is taken.             *)
(***************************************************************************)
\* mon.pc: the statement the thread is at; got, val: the local (pos, dur,
\* paused) it last read, got = FALSE for None.
NoMon == [pc |-> "idle", got |-> FALSE, val |-> 0]

\* The session, with the history of the last request handler kept.
Kept ==
    [Cur EXCEPT !.cmds = cmds, !.res = ret, !.launched = launched,
                !.argv = argv]

\* The monitor thread takes one step: the session becomes s, it moves to m.
MonStep(s, m) ==
    /\ Set([s EXCEPT !.cmds = cmds, !.res = ret, !.launched = launched,
                     !.argv = argv])
    /\ mon' = m
    /\ UNCHANGED <<pc, loc, lastOp, pre, lastArg, wire, reply, probe,
                   hdmi_info, stopper, monitor_running>>

\* The local after a _get_property that the player answers (ok) with v.
MonRead(to, ok, v) ==
    [pc |-> to, got |-> ok, val |-> IF ok THEN v ELSE 0]

\* while self.monitor_running: if self.state == 'playing':
MonBegin ==
    /\ mon.pc = "idle"
    /\ monitor_running
    /\ state = "playing"
    /\ MonStep(Kept, [NoMon EXCEPT !.pc = "get_pos"])

\* pos = self._get_property('time-pos')
MonGetPos ==
    /\ mon.pc = "get_pos"
    /\ \E r \in Oks(Cur) :
        MonStep(Kept, MonRead("set_pos", SendOk(Cur, r), mpvPos))

\* if pos is not None: self.position = float(pos)
MonSetPos ==
    /\ mon.pc = "set_pos"
    /\ MonStep(IF mon.got THEN [Kept EXCEPT !.position = mon.val] ELSE Kept,
               [NoMon EXCEPT !.pc = "get_dur"])

\* dur = self._get_property('duration')
MonGetDur ==
    /\ mon.pc = "get_dur"
    /\ \E r \in Oks(Cur) :
        MonStep(Kept, MonRead("set_dur", SendOk(Cur, r), mpvDur))

\* if dur is not None: self.duration = float(dur)
MonSetDur ==
    /\ mon.pc = "set_dur"
    /\ MonStep(IF mon.got THEN [Kept EXCEPT !.duration = mon.val] ELSE Kept,
               [NoMon EXCEPT !.pc = "get_pause"])

\* paused = self._get_property('pause')
MonGetPause ==
    /\ mon.pc = "get_pause"
    /\ \E r \in Oks(Cur) :
        MonStep(Kept, MonRead("set_pause", SendOk(Cur, r),
                              IF mpvPaused THEN 1 ELSE 0))

\* if paused is not None: self.is_paused = bool(paused); self.state = ...
MonSetPause ==
    /\ mon.pc = "set_pause"
    /\ MonStep(IF mon.got
               THEN [Kept EXCEPT !.is_paused = (mon.val = 1),
                                 !.state = IF mon.val = 1 THEN "paused"
                                           ELSE "playing"]
               ELSE Kept,
               [NoMon EXCEPT !.pc = "check"])

\* The end-of-playback check and its branch; the pass is over.
MonCheck ==
    /\ mon.pc = "check"
    /\ \E skok \in OksIf(Cur, loop /\ PlaybackEnded(Cur)) :
        MonStep(TickChecked(Kept, skok), NoMon)

\* while self.monitor_running: the flag is down and the thread returns.
MonHalt ==
    /\ mon.pc = "idle"
    /\ ~monitor_running
    /\ MonStep(Kept, [NoMon EXCEPT !.pc = "halted"])

\* One step of the monitor thread.
MonNext ==
    \/ MonBegin
    \/ MonGetPos
    \/ MonSetPos
    \/ MonGetDur
    \/ MonSetDur
    \/ MonGetPause
    \/ MonSetPause
    \/ MonCheck
    \/ MonHalt

(***************************************************************************)
(* cleanup(): self.monitor_running = False, then self.stop().  The monitor *)
(* thread is not joined and may run between the two statements and after.  *)
(***************************************************************************)
CleanupBegin ==
    /\ monitor_running
    /\ Done("cleanup", NoArg, Cur)
    /\ monitor_running' = FALSE
    /\ UNCHANGED <<pc, loc, stopper>>
    /\ UNCHANGED aux

CleanupStop ==
    /\ ~monitor_running
    /\ lastOp = "cleanup"
    /\ \E qok \in QuitOks(Cur) :
        /\ Finish("stop", NoArg, DoStop(Cur, qok))
        /\ UNCHANGED <<pc, loc>>

(***************************************************************************)
(* api_set_config: config['loop']                                          *)
(***************************************************************************)
SetLoop ==
    \E b \in BOOLEAN :
        /\ Finish("set_config", NoArg, [Cur EXCEPT !.loop = b])
        /\ UNCHANGED <<pc, loc>>

(***************************************************************************)
(* The environment: the player runs, is paused from outside, exits.        *)
(***************************************************************************)
\* Playback advances by one second.
MpvAdvance ==
    /\ Live(Cur)
    /\ ~mpvPaused
    /\ mpvPos < mpvDur
    /\ Finish("env", NoArg, [Cur EXCEPT !.mpvPos = @ + 1])
    /\ UNCHANGED <<pc, loc>>

\* The player is paused or unpaused by something other than the controller.
MpvExternalPause ==
    /\ Live(Cur)
    /\ Finish("env", NoArg, [Cur EXCEPT !.mpvPaused = ~@])
    /\ UNCHANGED <<pc, loc>>

\* Process p is gone; unlinked: it removed its socket file on the way out.
ExitedBy(s, p, unlinked) ==
    IF unlinked /\ s.sock = p THEN SocketRemoved(Exited(s, p)) ELSE Exited(s, p)

\* A launched process exits by itself (end of file with '--keep-open=no',
\* a crash, a kill from outside); its socket file may stay behind.
MpvExit ==
    \E p \in alive, unlinked \in BOOLEAN :
        /\ Finish("env", NoArg, ExitedBy(Cur, p, unlinked))
        /\ UNCHANGED <<pc, loc>>

(***************************************************************************)
(* Concurrent callers: play() and set_hdmi_output() in two steps, with     *)
(* the steps of other calls free to run between the stop() at the start of *)
(* play() and the launch.  The request handlers run on separate threads    *)
(* and the controller takes no lock.                                       *)
(***************************************************************************)
Idle(t) == pc[t] = "idle"

\* Thread t enters play(f): stop(), the file check, self.current_file = f.
PlayBegin(t) ==
    \E f \in Files, qok \in QuitOks(Cur) :
        /\ Idle(t)
        /\ Finish("play:prepared", f, PlayPrepared(Cur, f, qok))
        /\ pc' = [pc EXCEPT ![t] = "launch"]
        /\ loc' = [loc EXCEPT ![t] = [NoLocals EXCEPT !.file = f]]

\* Thread t is in pause() on a session that is not paused: the request is
\* answered and self.state = 'paused' is written; self.is_paused = True is
\* the next statement.
PauseBegin(t) ==
    /\ Idle(t)
    /\ state # "stopped"
    /\ ~is_paused
    /\ Live(Cur)
    /\ Finish("pause:state", NoArg,
              [Sent(Cur, SetPauseCmd(TRUE), TRUE) EXCEPT !.state = "paused"])
    /\ pc' = [pc EXCEPT ![t] = "pause_flag"]
    /\ UNCHANGED loc

\* self.is_paused = True; return True
PauseEnd(t) ==
    /\ pc[t] = "pause_flag"
    /\ Finish("pause", NoArg,
              Returning([Cur EXCEPT !.is_paused = TRUE], RetTrue))
    /\ pc' = [pc EXCEPT ![t] = "idle"]
    /\ UNCHANGED loc

\* Thread t enters set_hdmi_output(o) with a playback on, up to the launch.
HdmiBegin(t) ==
    \E o \in Outputs, qok \in QuitOks(Cur) :
        /\ Idle(t)
        /\ Restarts(Cur)
        /\ Finish("set_hdmi_output:prepared", o,
                  PlayPrepared(OutputStored(Cur, o), current_file, qok))
        /\ pc' = [pc EXCEPT ![t] = "launch"]
        /\ loc' = [loc EXCEPT ![t] = [file |-> current_file, hdmi |-> TRUE,
                                      cur_pos |-> position,
                                      was_paused |-> is_paused]]

\* Thread t launches the player and returns from play().
PlayLaunch(t) ==
    /\ pc[t] = "launch"
    /\ ~loc[t].hdmi
    /\ FreePids(Cur) # {}
    /\ \E spawned \in BOOLEAN :
        /\ Finish("play", loc[t].file, PlayLaunched(Cur, loc[t].file, spawned))
        /\ pc' = [pc EXCEPT ![t] = "idle"]
        /\ loc' = [loc EXCEPT ![t] = NoLocals]

\* Thread t launches the player and finishes set_hdmi_output().
HdmiLaunch(t) ==
    /\ pc[t] = "launch"
    /\ loc[t].hdmi
    /\ FreePids(Cur) # {}
    /\ \E spawned \in BOOLEAN, skok \in BOOLEAN, pok \in BOOLEAN :
        /\ Finish("set_hdmi_output", hdmi_output,
                  HdmiRestored(PlayLaunched(Cur, loc[t].file, spawned),
                               loc[t].cur_pos, loc[t].was_paused, skok, pok))
        /\ pc' = [pc EXCEPT ![t] = "idle"]
        /\ loc' = [loc EXCEPT ![t] = NoLocals]

(***************************************************************************)
(* _send_command(command) and _get_property(property_name): one exchange   *)
(* over the socket, step by step.  wire is what the socket file and the    *)
(* peer do; the call's outcome is a record: it raised, or it returned ok   *)
(* (True, or the property's value in data) or not (False, None).           *)
(***************************************************************************)
\* The most recv() results an exchange is followed through.
MaxChunks == 2

\* What one sock.recv(4096) gives: bytes with no newline, the rest of a
\* line up to its newline, a whole line, b'' (the peer closed), or a
\* socket.timeout.
Pieces == {"half", "tail", "whole", "eof", "timeout"}
\* What the line the peer sends decodes to: a reply with error "success", a
\* reply with another error, an object with no error key (an event), JSON
\* that is not an object, or no JSON at all.
Docs == {"success", "error", "event", "list", "garbage"}
\* sock.connect(): accepted, timed out, refused (a stale socket file).
Connects == {"ok", "timeout", "refused"}

SeqsUpTo(S, n) == UNION {[1..k -> S] : k \in 0..n}

Wires ==
    [exists : BOOLEAN, connect : Connects, sent : BOOLEAN,
     chunks : SeqsUpTo(Pieces, MaxChunks), doc : Docs, data : 0..1]

NoWire ==
    [exists |-> FALSE, connect |-> "ok", sent |-> TRUE, chunks |-> <<>>,
     doc |-> "success", data |-> 0]

Raise == [raised |-> TRUE, ok |-> FALSE, data |-> 0]
Return(ok, data) == [raised |-> FALSE, ok |-> ok, data |-> data]
Tagged(kind, r) ==
    [kind |-> kind, raised |-> r.raised, ok |-> r.ok, data |-> r.data]
NoReply == Tagged("none", Return(FALSE, 0))

\* The read loop: recv() until b'' or until the response holds a newline.
\* Past the pieces the peer sends, recv() times out.
RECURSIVE Received(_, _)
Received(chunks, response) ==
    IF chunks = <<>> \/ Head(chunks) = "timeout"
    THEN [raised |-> TRUE, response |-> response]
    ELSE IF Head(chunks) = "eof"
    THEN [raised |-> FALSE, response |-> response]
    ELSE IF Head(chunks) \in {"tail", "whole"}
    THEN [raised |-> FALSE, response |-> Append(response, Head(chunks))]
    ELSE Received(Tail(chunks), Append(response, Head(chunks)))

\* The bytes read are one complete line.
IsLine(response) ==
    \/ response = <<"whole">>
    \/ /\ Len(response) >= 2
       /\ response[Len(response)] = "tail"
       /\ \A i \in 1..(Len(response) - 1) : response[i] = "half"

\* json.loads(response.decode('utf-8').strip())
Parsed(response, doc) == IF IsLine(response) THEN doc ELSE "garbage"

\* if response: result = json.loads(...); result.get('error') == 'success'
Answered(response, doc) ==
    IF response = <<>>
    THEN Return(FALSE, 0)
    ELSE IF Parsed(response, doc) \in {"garbage", "list"}
         THEN Raise
         ELSE Return(Parsed(response, doc) = "success", 0)

\* connect, send, the read loop and the parse.
Exchanged(w) ==
    IF w.connect # "ok" \/ ~w.sent \/ Received(w.chunks, <<>>).raised
    THEN Raise
    ELSE Answered(Received(w.chunks, <<>>).response, w.doc)

\* The body of the try block.
SendCommandBody(w) == IF ~w.exists THEN Return(FALSE, 0) ELSE Exchanged(w)

\* Mutant: the exception is not caught.
CaughtNever(r) == r

\* except Exception: return False (except: return None)
Caught(r) == IF r.raised THEN Return(FALSE, 0) ELSE r

SendCommand(w) == Caught(SendCommandBody(w))

\* if result.get('error') == 'success': return result.get('data')
GetPropertyBody(w) ==
    IF SendCommandBody(w).ok THEN Return(TRUE, w.data) ELSE SendCommandBody(w)

GetProperty(w) == Caught(GetPropertyBody(w))

\* The controller's own fields and the player, which the models of single
\* functions do not touch.
session == <<state, current_file, process, position, duration, volume,
             hdmi_output, is_paused, loop, alive, sock, mpvPaused, mpvPos,
             mpvDur, pc, loc, lastOp, pre, lastArg, ret, cmds, launched,
             argv, stopper, monitor_running>>

(***************************************************************************)
(* _detect_hdmi() and _check_display_connected()                           *)
(***************************************************************************)
\* The number of HDMI connectors of the board.
MaxPorts == 2
Ports == 1..MaxPorts

\* A connector directory under /sys/class/drm: its status file reads
\* "connected" or something else, cannot be read, or the directory is absent.
Statuses == {"connected", "disconnected", "unreadable", "absent"}

\* The words the code looks for in the lower-cased output of tvservice -s;
\* "hdmi0" stands for 'hdmi:0' or 'hdmi0', "hdmi1" for 'hdmi:1' or 'hdmi1'.
Words == {"hdmi", "off", "unknown", "hdmi0", "hdmi1"}

\* subprocess.run(['tvservice', '-s'], ...): it raises (no such program, a
\* timeout), exits with a non-zero code, or exits with 0 and some output.
TvOutcomes ==
    {[rc |-> r, stdout |-> {}] : r \in {"raise", "nonzero"}}
    \cup {[rc |-> "zero", stdout |-> w] :
             w \in {x \in SUBSET Words :
                       x \cap {"hdmi0", "hdmi1"} # {} => "hdmi" \in x}}

\* hdmi[p]: the connector card1-HDMI-A-p; other: a connector that is not
\* HDMI (composite, DSI).
Probes ==
    [tv : TvOutcomes, hdmi : [Ports -> Statuses], other : Statuses]

NoProbe ==
    [tv |-> [rc |-> "raise", stdout |-> {}],
     hdmi |-> [p \in Ports |-> "absent"], other |-> "absent"]

\* hdmi_info as returned, and the preference it was resolved for.
Info(pref, output, connected) ==
    [pref |-> pref, output |-> output, connected |-> connected]
DefaultOutput == "HDMI-A-1"
NoInfo == Info("none", DefaultOutput, FALSE)

\* The outcome of one detection step: it raised, it found an output, or
\* neither.
StepRaised == [raised |-> TRUE, found |-> FALSE, output |-> DefaultOutput]
StepNone == [raised |-> FALSE, found |-> FALSE, output |-> DefaultOutput]
StepFound(o) == [raised |-> FALSE, found |-> TRUE, output |-> o]

\* Mutant: the step's exception is not swallowed.
PassedNever(r) == r

\* except: pass
Passed(r) == IF r.raised THEN StepNone ELSE r

\* _check_display_connected(): any status file under card*/ that can be
\* read and reads "connected".
CheckDisplayConnected(pr) ==
    \/ pr.other = "connected"
    \/ \E p \in Ports : pr.hdmi[p] = "connected"

\* The tvservice step.
TvProbed(tv) ==
    IF tv.rc = "raise"
    THEN StepRaised
    ELSE IF /\ tv.rc = "zero"
            /\ "hdmi" \in tv.stdout
            /\ "off" \notin tv.stdout
            /\ "unknown" \notin tv.stdout
    THEN StepFound(IF "hdmi0" \in tv.stdout THEN "HDMI-A-1"
                   ELSE IF "hdmi1" \in tv.stdout THEN "HDMI-A-2"
                   ELSE DefaultOutput)
    ELSE StepNone

\* sorted(glob.glob('/sys/class/drm/card*-HDMI-*')), as port numbers.
RECURSIVE SortedPorts(_)
SortedPorts(S) ==
    IF S = {}
    THEN <<>>
    ELSE <<CHOOSE p \in S : \A q \in S : p <= q>>
         \o SortedPorts(S \ {CHOOSE p \in S : \A q \in S : p <= q})

Globbed(pr) == SortedPorts({p \in Ports : pr.hdmi[p] # "absent"})

\* f'HDMI-A-{match.group(1)}'
PortName(p) == "HDMI-A-" \o ToString(p)

\* The loop over the connector directories.
RECURSIVE Enumerated(_, _)
Enumerated(paths, pr) ==
    IF paths = <<>>
    THEN StepNone
    ELSE IF pr.hdmi[Head(paths)] = "unreadable"
    THEN StepRaised
    ELSE IF pr.hdmi[Head(paths)] = "connected"
    THEN StepFound(PortName(Head(paths)))
    ELSE Enumerated(Tail(paths), pr)

\* Mutant: a manual preference only renames what detection finds.
ManualDetected(pref, pr) ==
    Info(pref, pref,
         Passed(TvProbed(pr.tv)).found \/ CheckDisplayConnected(pr))

\* if self.hdmi_output != 'auto': the preference and the generic probe.
Manual(pref, pr) == Info(pref, pref, CheckDisplayConnected(pr))

\* The generic probe, last.
Fallback(pr) == Info("auto", DefaultOutput, CheckDisplayConnected(pr))

\* Auto-detection from the connector directories on.
AutoFromDrm(pr, enr) ==
    IF enr.raised
    THEN Info("auto", DefaultOutput, FALSE)
    ELSE IF enr.found THEN Info("auto", enr.output, TRUE) ELSE Fallback(pr)

\* Auto-detection; a step that raises past its own except ends in the
\* outer one, which returns hdmi_info as initialised.
AutoFromTv(pr, tvr) ==
    IF tvr.raised
    THEN Info("auto", DefaultOutput, FALSE)
    ELSE IF tvr.found
    THEN Info("auto", tvr.output, TRUE)
    ELSE AutoFromDrm(pr, Passed(Enumerated(Globbed(pr), pr)))

Auto(pr) == AutoFromTv(pr, Passed(TvProbed(pr.tv)))

DetectHdmi(pref, pr) == IF pref # "auto" THEN Manual(pref, pr) ELSE Auto(pr)

CallDetectHdmi ==
    /\ hdmi_info' = DetectHdmi(hdmi_output, probe)
    /\ hdmi_info' # hdmi_info
    /\ UNCHANGED <<session, wire, reply, mon, probe>>

CallSendCommand ==
    /\ reply = NoReply
    /\ reply' = Tagged("send", SendCommand(wire))
    /\ UNCHANGED <<session, wire, mon, probe, hdmi_info>>

CallGetProperty ==
    /\ reply = NoReply
    /\ reply' = Tagged("get", GetProperty(wire))
    /\ UNCHANGED <<session, wire, mon, probe, hdmi_info>>

\* The controller as __init__ leaves it, and no player.
InitSession ==
    /\ state = "stopped"
    /\ current_file = NoFile
    /\ process = NoProc
    /\ position = 0
    /\ duration = 0
    /\ volume = 100
    /\ hdmi_output = "auto"
    /\ is_paused = FALSE
    /\ loop \in BOOLEAN
    /\ alive = {}
    /\ sock = NoSock
    /\ mpvPaused = FALSE
    /\ mpvPos = 0
    /\ mpvDur = 0
    /\ pc = [t \in Threads |-> "idle"]
    /\ loc = [t \in Threads |-> NoLocals]
    /\ lastOp = "init"
    /\ pre = "stopped"
    /\ lastArg = NoArg
    /\ ret = RetNone
    /\ cmds = <<>>
    /\ launched = FALSE
    /\ argv = NoArgv
    /\ stopper = NoStopper
    /\ monitor_running = TRUE

Init ==
    /\ InitSession
    /\ wire = NoWire
    /\ reply = NoReply
    /\ mon = NoMon
    /\ probe = NoProbe
    /\ hdmi_info = NoInfo

\* Every operation runs to completion before the next one starts.
Next ==
    \/ Play
    \/ Stop
    \/ Pause
    \/ Resume
    \/ Seek
    \/ Skip
    \/ SetVolume
    \/ GetState
    \/ SetHdmiOutput
    \/ Tick
    \/ SetLoop
    \/ MpvAdvance
    \/ MpvExternalPause
    \/ MpvExit

Spec == Init /\ [][Next]_vars

\* Two caller threads inside play() and set_hdmi_output() at once.
NextConc ==
    \/ \E t \in Threads : PlayBegin(t)
    \/ \E t \in Threads : PlayLaunch(t)
    \/ \E t \in Threads : HdmiBegin(t)
    \/ \E t \in Threads : HdmiLaunch(t)
    \/ Stop
    \/ Pause
    \/ GetState
    \/ MpvExit

SpecConc == Init /\ [][NextConc]_vars

\* The monitor thread step by step, next to play() and stop() requests.
NextRace ==
    \/ MonBegin
    \/ MonGetPos
    \/ MonSetPos
    \/ MonGetDur
    \/ MonSetDur
    \/ MonGetPause
    \/ MonSetPause
    \/ MonCheck
    \/ Play
    \/ Stop
    \/ MpvAdvance

SpecRace == Init /\ [][NextRace]_vars

\* The request handlers one at a time, with stop() failing to terminate
\* the player.
NextFault ==
    \/ StopRaising
    \/ Stop
    \/ Play
    \/ Pause
    \/ GetState
    \/ Tick
    \/ MpvAdvance
    \/ MpvExit

SpecFault == Init /\ [][NextFault]_vars

\* The monitor thread step by step next to pause() in its two writes, with
\* play() and the other paths of pause() in one step.
NextFlag ==
    \/ MonBegin
    \/ MonGetPos
    \/ MonSetPos
    \/ MonGetDur
    \/ MonSetDur
    \/ MonGetPause
    \/ MonSetPause
    \/ MonCheck
    \/ \E t \in Threads : PauseBegin(t)
    \/ \E t \in Threads : PauseEnd(t)
    \/ Pause
    \/ Play
    \/ MpvAdvance

SpecFlag == Init /\ [][NextFlag]_vars

\* stop() statement by statement, called on whatever play() and the player
\* have left; play() runs between two stop() calls, the player may exit by
\* itself at any point.
PlayFromIdle ==
    /\ stopper.pc = "idle"
    /\ process = NoProc
    /\ Play

NextTerm ==
    \/ StopBegin
    \/ StopTerminate
    \/ StopWait
    \/ StopKill
    \/ StopReap
    \/ StopRelease
    \/ StopReturn
    \/ PlayFromIdle
    \/ MpvExit

SpecTerm == Init /\ [][NextTerm]_vars

\* The session while it is in use: requests and the player, up to cleanup().
InUse ==
    /\ monitor_running
    /\ \/ Play
       \/ SetLoop
       \/ MpvAdvance

\* cleanup() next to the monitor thread, called on whatever the requests
\* have left and wherever the monitor thread is.
NextCleanup ==
    \/ MonNext
    \/ CleanupBegin
    \/ CleanupStop
    \/ InUse

\* Both threads keep running: the monitor thread wakes up every half
\* second, cleanup() goes on to its stop().
SpecCleanup ==
    /\ Init
    /\ [][NextCleanup]_vars
    /\ WF_vars(MonNext)
    /\ WF_vars(CleanupStop)

\* Display detection, for every answer of tvservice and every content of
\* /sys/class/drm, with the preference set through set_hdmi_output().
InitDetect ==
    /\ InitSession
    /\ wire = NoWire
    /\ reply = NoReply
    /\ mon = NoMon
    /\ probe \in Probes
    /\ hdmi_info = NoInfo

NextDetect ==
    \/ SetHdmiOutput
    \/ CallDetectHdmi

SpecDetect == InitDetect /\ [][NextDetect]_vars

\* One IPC exchange, for every behaviour of the socket and the peer.
InitIpc ==
    /\ InitSession
    /\ wire \in Wires
    /\ reply = NoReply
    /\ mon = NoMon
    /\ probe = NoProbe
    /\ hdmi_info = NoInfo

NextIpc ==
    \/ CallSendCommand
    \/ CallGetProperty

SpecIpc == InitIpc /\ [][NextIpc]_vars
(***************************************************************************)
(* Properties.                                                             *)
(***************************************************************************)
Active == state \in {"playing", "paused"}

\* The tick that just completed ran its reads, and the player answered
\* the time-pos and the duration requests.
TickReported ==
    /\ lastOp = "tick"
    /\ Len(cmds) >= 3
    /\ cmds[1].ok
    /\ cmds[2].ok

\* The player is at the end of a file of known duration.
PlayerAtEnd == Live(Cur) /\ mpvDur > 0 /\ mpvPos >= mpvDur - 1

\* Some request of the last operation is an absolute seek to 0.
SeekToStartIssued ==
    \E i \in 1..Len(cmds) :
        cmds[i].name = "seek" /\ cmds[i].mode = "absolute" /\ cmds[i].arg = 0

\* The position a seek request asks the player for, from position p.
SeekTarget(c, p) == IF c.mode = "relative" THEN p + c.arg ELSE c.arg

\* C1: after every operation or tick, currentFile is non-null if and only
\* if the state is Playing or Paused.
C1_FileIffActive == (current_file # NoFile) <=> Active

\* C2: after every operation or tick, the session holds a process handle
\* if and only if the state is Playing or Paused.
C2_HandleIffActive == (process # NoProc) <=> Active

\* C3: at most one launched player process is alive, and a live process
\* is the one the session's handle refers to, in every interleaving of
\* concurrent play(), stop() and set_hdmi_output() calls.
C3_OneLiveProcess ==
    /\ Cardinality(alive) <= 1
    /\ \A p \in alive : p = process

\* C4: no state has state = Stopped while the IPC socket file exists.
C4_NoSocketWhenStopped == state = "stopped" => sock = NoSock

\* C5: when the supervised process has exited, the next get_state() call
\* returns Stopped (and leaves the session Stopped), whether or not a tick
\* has run since the exit.
C5_StatusAfterExit ==
    [][(lastOp' = "get_state" /\ ProcessExited(Cur))
        => (ret' = "stopped" /\ state' = "stopped")]_vars

\* C5 witness: a get_state() call found a Playing or Paused session whose
\* process had exited, and answered Stopped.
C5_Witness ==
    /\ lastOp = "get_state"
    /\ pre \in {"playing", "paused"}
    /\ ProcessExited(Cur)
    /\ ret = "stopped"

\* C6: with looping disabled, a tick on a Playing session whose player
\* reports a known duration D > 0 and a position >= D - 1 moves the state to
\* Stopped and clears currentFile.
C6_TickEndStopsAndClears ==
    [][(state = "playing" /\ ~loop /\ PlayerAtEnd /\ TickReported')
        => (state' = "stopped" /\ current_file' = NoFile)]_vars

\* C7 as stated: with looping enabled, such a tick issues an absolute seek
\* to 0 and leaves the state Playing, currentFile and the handle unchanged.
C7_TickLoopStaysPlaying ==
    [][(state = "playing" /\ loop /\ PlayerAtEnd /\ TickReported')
        => /\ SeekToStartIssued'
           /\ state' = "playing"
           /\ current_file' = current_file
           /\ process' = process]_vars

\* C7 as amended: the same, unless the player reports pause = true in that
\* tick; then the state follows the player and becomes Paused, and the seek
\* to 0 is issued and currentFile and the handle are unchanged all the same.
C7_TickLoopSeeks ==
    [][(state = "playing" /\ loop /\ PlayerAtEnd /\ TickReported')
        => /\ SeekToStartIssued'
           /\ state' = (IF cmds'[3].ok /\ mpvPaused THEN "paused"
                        ELSE "playing")
           /\ current_file' = current_file
           /\ process' = process]_vars

\* C7 witness: a tick of a looping session read an end position and a
\* duration from the player and issued the seek to 0.
C7_Witness ==
    /\ TickReported
    /\ loop
    /\ pre = "playing"
    /\ state = "playing"
    /\ SeekToStartIssued
    /\ cmds[4].ok
    /\ position = 0
    /\ duration > 0

C9_PauseToggles ==
    [][(lastOp' = "pause" /\ Active /\ ret' = RetTrue)
        => /\ state = "playing" => state' = "paused"
           /\ state = "paused" => state' = "playing"]_vars

\* C9 witness: the second pause() of a round trip has brought a Paused
\* session back to Playing.
C9_Witness ==
    /\ lastOp = "pause"
    /\ pre = "paused"
    /\ state = "playing"
    /\ ret = RetTrue
    /\ cmds[1] = [SetPauseCmd(FALSE) EXCEPT !.ok = TRUE]

\* C10: skip(delta) on a session of known duration D at position P asks
\* the player for the position clamp(P + delta, 0, D).
C10_SkipRequestClamped ==
    [][(lastOp' = "skip" /\ Active /\ duration > 0)
        => SeekTarget(cmds'[1], position)
             = Clamp(position + lastArg', 0, duration)]_vars

\* Every request of the last operation other than stop()'s quit succeeded.
AllAnswered ==
    \A i \in 1..Len(cmds) : cmds[i].name # "quit" => cmds[i].ok

\* The first IPC request of the last operation failed.
FirstSendFailed == Len(cmds) >= 1 /\ ~cmds[1].ok

\* C11: after set_volume(level) the stored volume is min(100, max(0,
\* level)): 100 for a level above 100, 0 for a level below 0, the level
\* itself between the two.
C11_VolumeClamped ==
    [][lastOp' = "set_volume"
        => /\ lastArg' > 100 => volume' = 100
           /\ lastArg' < 0 => volume' = 0
           /\ (0 <= lastArg' /\ lastArg' <= 100) => volume' = lastArg']_vars

\* C11 witness: set_volume(150) has stored 100.
C11_Witness == lastOp = "set_volume" /\ lastArg = 150 /\ volume = 100

\* C12: set_hdmi_output() on a Playing or Paused session whose relaunch
\* and IPC requests succeed ends with the same currentFile, the same
\* position and the same state, and with a newly launched process as the
\* only live one.
C12_OutputRestartPreserves ==
    [][(lastOp' = "set_hdmi_output" /\ Active /\ launched' /\ AllAnswered')
        => /\ current_file' = current_file
           /\ position' = position
           /\ state' = state
           /\ process' # NoProc
           /\ alive' = {process'}]_vars

\* C12 witness: a Paused session at a position > 0 was restarted on
\* another output, seeked back and paused again.
C12_Witness ==
    /\ lastOp = "set_hdmi_output"
    /\ pre = "paused"
    /\ launched
    /\ AllAnswered
    /\ state = "paused"
    /\ position > 0
    /\ mpvPaused
    /\ \E i \in 1..Len(cmds) : cmds[i].name = "seek" /\ cmds[i].arg = position

\* C13: when the IPC request of pause(), resume(), seek(), skip() or
\* set_volume() fails, the operation returns False and state, currentFile,
\* position, duration and volume keep the values they had before the call.
C13_IpcFailureChangesNothing ==
    [][(lastOp' \in {"pause", "resume", "seek", "skip", "set_volume"}
          /\ FirstSendFailed')
        => /\ ret' = RetFalse
           /\ state' = state
           /\ current_file' = current_file
           /\ position' = position
           /\ duration' = duration
           /\ volume' = volume]_vars

C15_ResumeNoOp ==
    [][(lastOp' = "resume" /\ state # "paused")
        => (ret' = RetTrue /\ state' = state)]_vars

\* The peer delivered one complete line, in one piece or in several.
CompleteLine(chunks) ==
    \E k \in 1..Len(chunks) :
        \/ k = 1 /\ chunks[1] = "whole"
        \/ k >= 2 /\ chunks[k] = "tail" /\ \A i \in 1..(k - 1) : chunks[i] = "half"

\* C16: an IPC call returns ok (a value) only when the socket file exists,
\* the connection and the read succeed, the response parses and its error
\* field is "success"; in every other case it returns False (None), and it
\* never raises.
C16_IpcOutcome ==
    reply.kind # "none"
      => /\ ~reply.raised
         /\ reply.ok => /\ wire.exists
                        /\ wire.connect = "ok"
                        /\ wire.sent
                        /\ CompleteLine(wire.chunks)
                        /\ wire.doc = "success"

\* C16 witness: _send_command read a whole line that is not JSON, and
\* returned False.
C16_Witness ==
    /\ reply.kind = "send"
    /\ wire.exists
    /\ wire.connect = "ok"
    /\ wire.sent
    /\ wire.chunks = <<"whole">>
    /\ wire.doc = "garbage"
    /\ ~reply.ok
    /\ ~reply.raised

\* C17: the monitor thread and the request handlers never write the
\* session's fields at the same time: once stop() has returned and the pass
\* of the monitor loop that was under way has ended, the state is Stopped
\* and position and duration are 0.
C17_StopThenNoTickWrite ==
    (lastOp = "stop" /\ mon.pc = "idle")
      => (state = "stopped" /\ position = 0 /\ duration = 0)

\* The generic probe: some connector's status can be read and is
\* "connected".
AnyDisplayConnected ==
    probe.other = "connected" \/ \E p \in Ports : probe.hdmi[p] = "connected"

\* tvservice ran, exited with 0 and reports an HDMI output that is on.
ToolReportsHdmi ==
    /\ probe.tv.rc = "zero"
    /\ "hdmi" \in probe.tv.stdout
    /\ probe.tv.stdout \cap {"off", "unknown"} = {}

\* The port tvservice names: the first HDMI port unless it names only the
\* second.
ToolPort ==
    IF "hdmi1" \in probe.tv.stdout /\ "hdmi0" \notin probe.tv.stdout
    THEN "HDMI-A-2" ELSE "HDMI-A-1"

\* The enumeration of the connectors gets as far as port p: no status file
\* before it fails to be read.
ReadUpTo(p) == \A q \in 1..(p - 1) : probe.hdmi[q] # "unreadable"

\* Port p is the first connector, in sorted order, whose status is
\* "connected".
FirstConnected(p) ==
    /\ probe.hdmi[p] = "connected"
    /\ \A q \in 1..(p - 1) : probe.hdmi[q] # "connected"

\* C18: with a specific output as the preference, the profile has that
\* output as its video target and connected is the result of the generic
\* probe, whatever tvservice and the connector enumeration would give.
C18_ManualOutputUsed ==
    hdmi_info.pref \notin {"none", "auto"}
      => /\ hdmi_info.output = hdmi_info.pref
         /\ hdmi_info.connected = AnyDisplayConnected

\* C18 witness: HDMI-A-2 is preferred, tvservice reports the first HDMI
\* port on, no status file reads "connected": the profile is HDMI-A-2, not
\* connected.
C18_Witness ==
    /\ hdmi_info.pref = "HDMI-A-2"
    /\ ToolReportsHdmi
    /\ "hdmi0" \in probe.tv.stdout
    /\ ~AnyDisplayConnected
    /\ hdmi_info.output = "HDMI-A-2"
    /\ ~hdmi_info.connected

\* C19: with the preference "auto", detection always returns a profile,
\* and the probes apply in this order, each of them succeeding, reporting
\* nothing or failing: the HDMI port tvservice reports; else the first
\* connector in sorted order whose status is "connected", when the
\* enumeration reads that far; else the default output with connected =
\* true when the generic probe finds a display; else connected = false.
C19_AutoPriority ==
    hdmi_info.pref = "auto"
      => IF ToolReportsHdmi
         THEN hdmi_info.connected /\ hdmi_info.output = ToolPort
         ELSE IF \E p \in Ports : FirstConnected(p) /\ ReadUpTo(p)
         THEN /\ hdmi_info.connected
              /\ \E p \in Ports : /\ FirstConnected(p)
                                  /\ hdmi_info.output = PortName(p)
         ELSE IF AnyDisplayConnected
         THEN hdmi_info.connected /\ hdmi_info.output = DefaultOutput
         ELSE ~hdmi_info.connected

\* C19 witness: tvservice cannot be run, the first connector is not
\* connected and the second is: the profile is the second port.
C19_Witness ==
    /\ hdmi_info.pref = "auto"
    /\ probe.tv.rc = "raise"
    /\ probe.hdmi[1] = "disconnected"
    /\ probe.hdmi[2] = "connected"
    /\ hdmi_info.output = "HDMI-A-2"
    /\ hdmi_info.connected

\* C20: when the terminate step of stop() raises (stop() then returns
\* False), the socket file is removed all the same and the session is reset
\* to Stopped with currentFile, position and duration cleared.
C20_StopCleansUpAfterFailure ==
    [][(lastOp' = "stop" /\ ret' = RetFalse)
        => /\ sock' = NoSock
           /\ state' = "stopped"
           /\ current_file' = NoFile
           /\ position' = 0
           /\ duration' = 0]_vars

\* The last operation asked the player for its pause property and the
\* request failed.
PauseReadFailed ==
    \E i \in 1..Len(cmds) :
        cmds[i].name = "get_property" /\ cmds[i].mode = "pause" /\ ~cmds[i].ok

\* C22: a tick on a session that is not Stopped, with a player that
\* answers, leaves the state the player reports (Paused for pause = true,
\* Playing for pause = false) unless its read of the pause property fails
\* or the tick ends the playback; a Paused session whose player was
\* unpaused from outside becomes Playing.
C22_TickFollowsPlayerPause ==
    [][(lastOp' = "tick" /\ state # "stopped" /\ Live(Cur)
          /\ ~PauseReadFailed' /\ state' # "stopped")
        => state' = (IF mpvPaused THEN "paused" ELSE "playing")]_vars

\* C23: a tick on a Stopped session issues no IPC request and changes no
\* field of the session.
C23_TickOnStoppedIdle ==
    [][(lastOp' = "tick" /\ state = "stopped")
        => /\ cmds' = <<>>
           /\ state' = state
           /\ current_file' = current_file
           /\ position' = position
           /\ duration' = duration
           /\ volume' = volume
           /\ hdmi_output' = hdmi_output
           /\ is_paused' = is_paused
           /\ process' = process]_vars

\* C23 witness: a tick ran on a Stopped session whose player was still
\* listening on the socket.
C23_Witness ==
    /\ lastOp = "tick"
    /\ pre = "stopped"
    /\ state = "stopped"
    /\ Live(Cur)
    /\ cmds = <<>>

\* C24: in a tick that neither loops back nor stops the session, each of
\* position, duration and the pause state is the player's value when its
\* read succeeded and its previous value when its read failed, whatever
\* the outcome of the other two reads.
C24_TickReadsIndependent ==
    [][(lastOp' = "tick" /\ state = "playing" /\ Len(cmds') = 3
          /\ state' # "stopped")
        => /\ position' = (IF cmds'[1].ok THEN mpvPos ELSE position)
           /\ duration' = (IF cmds'[2].ok THEN mpvDur ELSE duration)
           /\ is_paused' = (IF cmds'[3].ok THEN mpvPaused ELSE is_paused)
           /\ state' = (IF cmds'[3].ok
                        THEN (IF mpvPaused THEN "paused" ELSE "playing")
                        ELSE state)]_vars

\* C24 witness: a tick whose duration read failed and whose other two
\* reads succeeded: the position and the pause state are the player's, the
\* duration is still unknown.
C24_Witness ==
    /\ lastOp = "tick"
    /\ Len(cmds) = 3
    /\ cmds[1].ok
    /\ ~cmds[2].ok
    /\ cmds[3].ok
    /\ position = mpvPos
    /\ position > 0
    /\ duration = 0
    /\ mpvDur > 0
    /\ state = "paused"

\* C25: a get_state() call that finds the supervised process exited
\* clears currentFile and resets position and duration to 0.
C25_ExitResetsPosition ==
    [][(lastOp' = "get_state" /\ ProcessExited(Cur))
        => /\ current_file' = NoFile
           /\ position' = 0
           /\ duration' = 0]_vars

\* C28: play() of a file that exists, failing because the player cannot be
\* started, returns False and leaves the session fully Stopped: no current
\* file and no process handle.
C28_SpawnFailureLeavesStopped ==
    [][(lastOp' = "play" /\ lastArg' \in Files /\ ret' = RetFalse)
        => /\ state' = "stopped"
           /\ current_file' = NoFile
           /\ process' = NoProc]_vars

\* C29: the session leaves Stopped only through a play() that launches a
\* player, and then to Playing; no other operation and no tick turns a
\* Stopped session into a Playing or Paused one.
C29_LeavesStoppedOnlyByPlay ==
    [][(state = "stopped" /\ state' # "stopped")
        => (lastOp' = "play" /\ launched' /\ state' = "playing")]_vars

\* C26: the restart inside set_hdmi_output() is not observable: a
\* get_state() call that runs while another thread is between the stop
\* and the launch of that restart does not see Stopped, nor a session
\* without a current file.
C26_RestartNotObservable ==
    [][(lastOp = "set_hdmi_output:prepared" /\ lastOp' = "get_state")
        => (ret' # "stopped" /\ current_file' # NoFile)]_vars

\* C30: stop() and play() leave the stored volume and the output
\* preference as they are, and an operation that starts a player starts it
\* with the stored volume and with the stored output preference.
C30_LaunchUsesStoredSettings ==
    [][/\ lastOp' \in {"stop", "play"}
          => (volume' = volume /\ hdmi_output' = hdmi_output)
       /\ launched'
          => /\ volume' = volume
             /\ argv'.volume = volume'
             /\ argv'.pref = hdmi_output']_vars

\* C30 witness: after a set_volume(50) and a set_hdmi_output("HDMI-A-2"),
\* a play() has started the player with volume 50 on HDMI-A-2.
C30_Witness ==
    /\ lastOp = "play"
    /\ launched
    /\ volume = 50
    /\ hdmi_output = "HDMI-A-2"
    /\ argv = [volume |-> 50, pref |-> "HDMI-A-2"]
(***************************************************************************)
(* C21: stop() terminates the player in a fixed order.  When the socket    *)
(* file exists the quit request is the first thing stop() does; the wait   *)
(* of two seconds comes before any kill(); kill() is issued only right     *)
(* after that wait has run into its timeout, with the process still alive; *)
(* the handle is released, and stop() returns, only once the process has   *)
(* exited.                                                                 *)
(***************************************************************************)
StopEvents == {"quit", "terminate", "wait:exited", "wait:timeout", "kill"}

C27_CleanupHalts ==
    [](~monitor_running =>
          <>[](mon.pc = "halted" /\ state = "stopped" /\ alive = {}))

\* C31: whenever no request handler and no pass of the monitor loop is
\* under way, the is_paused flag agrees with the state: is_paused is true
\* exactly when the state is Paused.
C31_PausedFlagAgrees ==
    ((\A t \in Threads : Idle(t)) /\ mon.pc \in {"idle", "halted"})
      => (is_paused <=> (state = "paused"))

====
